---- MODULE Spec2Model ----
(***************************************************************************)
(* A model of the memory-safety core of the SVSM monitor:                  *)
(*   - kernel/src/mm/guestmem.rs : fault-tolerant access to guest memory   *)
(*   - src/svsm_paging.rs        : invalidate_stage2                       *)
(*   - src/sev/vmsa.rs           : allocate_new_vmsa                       *)
(*   - src/svsm_paging.rs        : init_page_table                         *)
(*   - src/fs/ramfs.rs           : RamFile                                 *)
(*   - src/mm/memory.rs          : init_memory_map, valid_phys_address     *)
(* Each subsystem has its own specification over the shared variables.     *)
(***************************************************************************)
EXTENDS Integers, Sequences, FiniteSets, TLC

(***************************************************************************)
(* Bounds of the model.                                                    *)
(***************************************************************************)
\* width of an address (usize / isize) in bits
AddrBits == 3
AddrSpace == 2^AddrBits
Addr == 0..(AddrSpace - 1)
\* the address space is cut into four pages of the hardware's page size
MemPageSize == 2^(AddrBits - 2)
MemPages == 0..3
PageOf(a) == a \div MemPageSize

CPUS == {0, 1}

\* size_of::<T>() of the payload types tried (0: a zero-sized type)
Sizes == {0, 1, 2, 4}
\* a GuestPtr<T>: the address it holds and size_of::<T>()
Handles == [ptr : Addr, size : Sizes]
\* a byte of a MaybeUninit buffer that was never written
Uninit == -1
\* object representations (byte sequences) of the payload values tried
Payloads(n) == { [i \in 1..n |-> 16 + i], [i \in 1..n |-> 64 + 2 * i] }
\* the u8 values tried with write_u8
U8Values == {66, 255}

\* contents of memory when the monitor starts using the primitives
InitMem == [a \in Addr |-> 96 + a]
\* page permissions the page table may give the four pages; page 0, holding
\* address zero, is never mapped
Layouts == { l \in [1..4 -> {"none", "ro", "rw"}] : l[1] = "none" }
\* the page tables tried with two CPUs
LayoutsSMP == { <<"none", "rw", "rw", "ro">>, <<"none", "rw", "none", "rw">> }

VARIABLES
    mem,      \* guest-visible memory: Addr -> byte
    perm,     \* page permissions: page -> "none" | "ro" | "rw"
    handle,   \* per CPU: the GuestPtr<T> its caller holds
    cpu,      \* per CPU: the call in progress (registers, buffers, result)
    old,      \* per CPU: memory as it was when the current call started
    prev,     \* per CPU: the call completed before the current one
    fatal,    \* the trap dispatcher treated a fault as unrecoverable
    origin,   \* the GuestPtr<T> that offset() was first applied to
    counts,   \* the step counts passed to offset(), in order
    s2_pc,    \* invalidate_stage2: where the call is
    config,   \* invalidate_stage2: config.page_state_change_required()
    paddr,    \* invalidate_stage2: the loop's physical cursor
    windows,  \* physical pages mapped in this CPU's mapping windows
    invalidated, \* physical pages pvalidate made invalid, in order
    psc_log,  \* page-state-change requests issued to the hypervisor, in order
    failed,   \* the ownership-protocol steps that failed, in order
    s2_res,   \* invalidate_stage2: what it returned
    panicked, \* the monitor was ended by a panic
    vm_pc,    \* allocate_new_vmsa: where the call is
    free,     \* pages in the allocator's free pool
    vmsa_page, \* allocate_new_vmsa: the page the call allocated
    rmp,      \* pages the RMP holds as VMPL-1 VMSA pages
    events,   \* allocate_new_vmsa: what the current call did, in order
    vm_res,   \* allocate_new_vmsa: what it returned
    free0,    \* the free pool as it was when the current call started
    pt_pc,    \* init_page_table: where the call is
    launch_info, \* init_page_table: the layout the prior stage passed
    kernel_elf, \* init_page_table: the image's loadable segments, in order
    igvm_param_info, \* init_page_table: the launch-parameter block, if any
    phys,     \* init_page_table: the physical cursor
    seg_i,    \* init_page_table: the segment the loop is at
    pgtable,  \* the new page table: the regions mapped so far, in order
    loaded,   \* the new page table is the active table
    init_pgtable, \* the process-wide page-table singleton
    pt_panic, \* the message init_page_table panicked with
    file,     \* RawRamFile: capacity, size and pages
    written,  \* RamFile: offsets written since they last were cut off
    fs_call,  \* RamFile: the last call, its arguments and its result
    mm_pc,    \* init_memory_map: where the call is
    fw_regions, \* the memory regions the firmware reports
    kernel_start, \* launch_info.kernel_start: where the monitor's memory begins
    regions,  \* init_memory_map: the regions being worked on
    reg_i,    \* init_memory_map: the region the loop is at
    MEMORY_MAP, \* the guest memory map
    mm_res    \* init_memory_map: what it returned

memvars == <<mem, perm, handle, cpu, old, prev, fatal>>
offvars == <<origin, counts>>
s2vars == <<s2_pc, config, paddr, windows, invalidated, psc_log, failed, s2_res, panicked>>
vmvars == <<vm_pc, free, vmsa_page, rmp, events, vm_res, free0>>
ptvars == <<pt_pc, launch_info, kernel_elf, igvm_param_info, phys, seg_i, pgtable,
            loaded, init_pgtable, pt_panic>>
fsvars == <<file, written, fs_call>>
mmvars == <<mm_pc, fw_regions, kernel_start, regions, reg_i, MEMORY_MAP, mm_res>>

(***************************************************************************)
(* Exception table and trap dispatcher (spec sections 4.2 and 6).          *)
(***************************************************************************)
Prims == <<"read_u8", "write_u8", "read_u16", "read_u32", "read_u64", "do_movsb">>
PrimIndex(p) == CHOOSE i \in 1..Len(Prims) : Prims[i] = p
\* label "1:" of the asm block of primitive p
Label1(p) == 16 * PrimIndex(p)
\* the instruction of the block that touches the target address: the mov of
\* the fixed-width primitives is at label 1; in do_movsb label 1 is the
\* one-byte cld and the rep movsb follows it
FaultInsn(p) == IF p = "do_movsb" THEN Label1(p) + 1 ELSE Label1(p)
\* the instruction that leaves the failure signal rcx zero: the xorq behind
\* the mov of the fixed-width primitives; in do_movsb the rep movsb itself,
\* which counts rcx down to zero
ClearInsn(p) == IF p = "do_movsb" THEN Label1(p) + 1 ELSE Label1(p) + 3
\* label "2:" of the asm block: after the xorq (fixed width) or the rep movsb
InsnBytes(p) == IF p = "do_movsb" THEN 3 ELSE 6
Label2(p) == Label1(p) + InsnBytes(p)
\* the table without the entry of do_movsb
ExceptionTable_FixedWidthOnly ==
    { [start |-> Label1(Prims[i]), end |-> Label2(Prims[i])] :
        i \in { j \in 1..Len(Prims) : Prims[j] # "do_movsb" } }

\* .quad (1b) / .quad (2b) pushed into the __exception_table section
ExceptionTable == { [start |-> Label1(Prims[i]), end |-> Label2(Prims[i])] : i \in 1..Len(Prims) }

\* the dispatcher's lookup: the entries whose range holds the faulting address
CheckExceptionTable(rip) == { e \in ExceptionTable : e.start <= rip /\ rip < e.end }
\* value the dispatcher leaves in rcx, the failure signal (non-zero)
RcxFault == AddrSpace - 1

(***************************************************************************)
(* guestmem.rs                                                             *)
(***************************************************************************)
Readable(a) == perm[PageOf(a) + 1] \in {"ro", "rw"}
Writable(a) == perm[PageOf(a) + 1] = "rw"

\* the operations that load from the target address
Reads == {"read", "read_u8", "read_u16", "read_u32", "read_u64"}

NoRes == [tag |-> "None", val |-> <<>>]
Ok(v) == [tag |-> "Ok", val |-> v]
Err(e) == [tag |-> e, val |-> <<>>]

IdleCpu ==
    [pc |-> "idle", op |-> "none", ptr |-> 0, size |-> 0, src |-> <<>>,
     buf |-> <<>>, rcx |-> 0, moved |-> 0, res |-> NoRes]
NoPrev == [op |-> "none", src |-> <<>>, res |-> NoRes]

\* GuestCursor with the direction flag set (no cld): the copy runs downwards
GuestCursor_Backward(r) == (r.ptr - r.moved) % AddrSpace

\* the guest address the copy is at: self.ptr advanced by the bytes moved
GuestCursor(r) == (r.ptr + r.moved) % AddrSpace

\* CheckRcx that ignores the failure signal
CheckRcx_IgnoreSignal(rcx, v) == Ok(v)

\* the tail of every primitive: if rcx == 0 { Ok } else { Err(InvalidAddress) }
CheckRcx(rcx, v) == IF rcx = 0 THEN Ok(v) ELSE Err("InvalidAddress")

\* what the call returns once the asm block is left with rcx; a read hands
\* out its buffer (buf.assume_init(), ret) only on the Ok path
Return(r, rcx) ==
    [r EXCEPT !.pc = "done", !.rcx = rcx,
              !.res = CheckRcx(rcx, IF r.op \in Reads THEN r.buf ELSE <<>>)]

\* a fault at instruction address rip: the dispatcher redirects to the
\* recovery address with the failure signal set, or gives up
HandleFault(m, r, rip) ==
    IF CheckExceptionTable(rip) # {}
    THEN [mem |-> m, cpu |-> Return(r, RcxFault), fatal |-> FALSE]
    ELSE [mem |-> m, cpu |-> [r EXCEPT !.pc = "dead"], fatal |-> TRUE]

\* whether rep movsb can move the next byte
CanMove(r) ==
    IF r.op = "read" THEN Readable(GuestCursor(r)) ELSE Writable(GuestCursor(r))

\* MoveByte as a word move: the byte after the cursor is written as well
MoveByte_Overrun(m, r) ==
    IF r.op = "read"
    THEN [mem |-> m,
          cpu |-> [r EXCEPT !.buf[r.moved + 1] = m[(r.ptr + r.moved) % AddrSpace],
                            !.moved = r.moved + 1, !.rcx = r.rcx - 1],
          fatal |-> FALSE]
    ELSE [mem |-> [m EXCEPT ![(r.ptr + r.moved) % AddrSpace] = r.src[r.moved + 1],
                            ![(r.ptr + r.moved + 1) % AddrSpace] = r.src[r.moved + 1]],
          cpu |-> [r EXCEPT !.moved = r.moved + 1, !.rcx = r.rcx - 1],
          fatal |-> FALSE]

\* MoveByte whose source pointer does not advance (rsi is not an inout)
MoveByte_NoSrcAdvance(m, r) ==
    IF r.op = "read"
    THEN [mem |-> m,
          cpu |-> [r EXCEPT !.buf[r.moved + 1] = m[r.ptr],
                            !.moved = r.moved + 1, !.rcx = r.rcx - 1],
          fatal |-> FALSE]
    ELSE [mem |-> [m EXCEPT ![(r.ptr + r.moved) % AddrSpace] = r.src[1]],
          cpu |-> [r EXCEPT !.moved = r.moved + 1, !.rcx = r.rcx - 1],
          fatal |-> FALSE]

\* the byte rep movsb moves next, to the local buffer (read) or to memory
MoveByte(m, r) ==
    IF r.op = "read"
    THEN [mem |-> m,
          cpu |-> [r EXCEPT !.buf[r.moved + 1] = m[GuestCursor(r)],
                            !.moved = r.moved + 1, !.rcx = r.rcx - 1],
          fatal |-> FALSE]
    ELSE [mem |-> [m EXCEPT ![GuestCursor(r)] = r.src[r.moved + 1]],
          cpu |-> [r EXCEPT !.moved = r.moved + 1, !.rcx = r.rcx - 1],
          fatal |-> FALSE]

\* do_movsb: one iteration of rep movsb, or leaving the block at label 2
do_movsb(m, r) ==
    IF r.rcx = 0 THEN [mem |-> m, cpu |-> Return(r, 0), fatal |-> FALSE]
    ELSE IF CanMove(r) THEN MoveByte(m, r)
    ELSE HandleFault(m, r, FaultInsn("do_movsb"))

\* read_u8: movb (v), %al; xorq %rcx, %rcx; ret = (val & 0xff) as u8
read_u8(m, r) ==
    IF Readable(r.ptr)
    THEN [mem |-> m,
          cpu |-> Return([r EXCEPT !.buf = <<m[r.ptr] % 256>>, !.moved = 1], 0),
          fatal |-> FALSE]
    ELSE HandleFault(m, r, FaultInsn("read_u8"))

\* write_u8: rax = val as u64; movb %al, (v); xorq %rcx, %rcx
write_u8(m, r) ==
    IF Writable(r.ptr)
    THEN [mem |-> [m EXCEPT ![r.ptr] = r.src[1] % 256],
          cpu |-> Return([r EXCEPT !.moved = 1], 0),
          fatal |-> FALSE]
    ELSE HandleFault(m, r, FaultInsn("write_u8"))

\* a mov of r.size bytes from the target address into a register: one
\* access, which faults when a byte of it is not readable
MovLoad(m, r, p) ==
    IF \A i \in 0..(r.size - 1) : Readable((r.ptr + i) % AddrSpace)
    THEN [mem |-> m,
          cpu |-> Return([r EXCEPT !.buf = [i \in 1..r.size |->
                                              m[(r.ptr + i - 1) % AddrSpace] % 256],
                                   !.moved = r.size], 0),
          fatal |-> FALSE]
    ELSE HandleFault(m, r, FaultInsn(p))

\* read_u16: movw (v), val; xorq %rcx, %rcx; ret = (val & 0xffff) as u16
read_u16(m, r) == MovLoad(m, r, "read_u16")

\* read_u32: movl (v), val; xorq %rcx, %rcx; ret = (val & 0xffffffff) as u32
read_u32(m, r) == MovLoad(m, r, "read_u32")

\* read_u64: movq (v), val; xorq %rcx, %rcx
read_u64(m, r) == MovLoad(m, r, "read_u64")

\* the next step of the call r on memory m
Step(m, r) ==
    IF r.pc = "movsb" THEN do_movsb(m, r)
    ELSE IF r.op = "read_u8" THEN read_u8(m, r)
    ELSE IF r.op = "read_u16" THEN read_u16(m, r)
    ELSE IF r.op = "read_u32" THEN read_u32(m, r)
    ELSE IF r.op = "read_u64" THEN read_u64(m, r)
    ELSE write_u8(m, r)

\* a caller on CPU c enters a primitive
Enter(c, r) ==
    /\ ~fatal
    /\ cpu[c].pc \in {"idle", "done"}
    /\ cpu' = [cpu EXCEPT ![c] = r]
    /\ prev' = [prev EXCEPT ![c] = [op |-> cpu[c].op, src |-> cpu[c].src, res |-> cpu[c].res]]
    /\ old' = [old EXCEPT ![c] = mem]
    /\ UNCHANGED <<mem, perm, handle, fatal, offvars, s2vars, vmvars, ptvars, fsvars, mmvars>>

\* GuestPtr::read(&self): do_movsb(self.ptr, buf.as_mut_ptr()), buf uninit
GuestPtr_read(c) ==
    LET h == handle[c] IN
    Enter(c, [pc |-> "movsb", op |-> "read", ptr |-> h.ptr, size |-> h.size,
              src |-> <<>>, buf |-> [i \in 1..h.size |-> Uninit],
              rcx |-> h.size, moved |-> 0, res |-> NoRes])

\* GuestPtr::write(&self, buf): do_movsb(&buf, self.ptr)
GuestPtr_write(c) ==
    LET h == handle[c] IN
    \E v \in Payloads(h.size) :
        Enter(c, [pc |-> "movsb", op |-> "write", ptr |-> h.ptr, size |-> h.size,
                  src |-> v, buf |-> <<>>,
                  rcx |-> h.size, moved |-> 0, res |-> NoRes])

\* GuestPtr::write_ref(&self, &buf): do_movsb(buf, self.ptr)
GuestPtr_write_ref(c) ==
    LET h == handle[c] IN
    \E v \in Payloads(h.size) :
        Enter(c, [pc |-> "movsb", op |-> "write", ptr |-> h.ptr, size |-> h.size,
                  src |-> v, buf |-> <<>>,
                  rcx |-> h.size, moved |-> 0, res |-> NoRes])

\* a caller invokes read_u8(v) on the address of its handle
Call_read_u8(c) ==
    Enter(c, [pc |-> "mov", op |-> "read_u8", ptr |-> handle[c].ptr, size |-> 1,
              src |-> <<>>, buf |-> <<Uninit>>,
              rcx |-> 0, moved |-> 0, res |-> NoRes])

\* a caller invokes write_u8(v, val) on the address of its handle
Call_write_u8(c) ==
    \E val \in U8Values :
        Enter(c, [pc |-> "mov", op |-> "write_u8", ptr |-> handle[c].ptr, size |-> 1,
                  src |-> <<val>>, buf |-> <<>>,
                  rcx |-> 0, moved |-> 0, res |-> NoRes])

\* a caller invokes read_u16(v), read_u32(v) or read_u64(v) on the address
\* of its handle
CallWide(c, op, size) ==
    Enter(c, [pc |-> "mov", op |-> op, ptr |-> handle[c].ptr, size |-> size,
              src |-> <<>>, buf |-> [i \in 1..size |-> Uninit],
              rcx |-> 0, moved |-> 0, res |-> NoRes])

Call_read_u16(c) == CallWide(c, "read_u16", 2)
Call_read_u32(c) == CallWide(c, "read_u32", 4)
Call_read_u64(c) == CallWide(c, "read_u64", 8)

\* the calls of every primitive, the fixed-width ones included
CallPrim(c) ==
    \/ GuestPtr_read(c)
    \/ GuestPtr_write(c)
    \/ Call_read_u8(c)
    \/ Call_write_u8(c)
    \/ Call_read_u16(c)
    \/ Call_read_u32(c)
    \/ Call_read_u64(c)

Call(c) ==
    \/ GuestPtr_read(c)
    \/ GuestPtr_write(c)
    \/ GuestPtr_write_ref(c)
    \/ (handle[c].size = 1 /\ Call_read_u8(c))
    \/ (handle[c].size = 1 /\ Call_write_u8(c))

\* CPU c executes the next instruction of its call
Exec(c) ==
    /\ ~fatal
    /\ cpu[c].pc \in {"movsb", "mov"}
    /\ LET s == Step(mem, cpu[c]) IN
        /\ mem' = s.mem
        /\ cpu' = [cpu EXCEPT ![c] = s.cpu]
        /\ fatal' = s.fatal
    /\ UNCHANGED <<perm, handle, old, prev, offvars, s2vars, vmvars, ptvars, fsvars, mmvars>>

(***************************************************************************)
(* GuestPtr::offset                                                        *)
(***************************************************************************)
\* the values of an isize
ISize == (-(2^(AddrBits - 1)))..(2^(AddrBits - 1) - 1)
\* -n in two's complement: the negation of isize::MIN is isize::MIN
WrappingNeg(n) == IF n = -(2^(AddrBits - 1)) THEN n ELSE -n

\* wrapping_offset that saturates at the ends of the address space
wrapping_offset_Saturating(h, count) ==
    LET a == h.ptr + count * h.size IN
    [ptr |-> IF a < 0 THEN 0 ELSE IF a >= AddrSpace THEN AddrSpace - 1 ELSE a,
     size |-> h.size]

\* ptr.wrapping_offset(count): count elements of size_of::<T>() bytes, modulo
\* the address width
wrapping_offset(h, count) ==
    [ptr |-> (h.ptr + count * h.size) % AddrSpace, size |-> h.size]

\* GuestPtr::offset(&self, count) of the handle CPU c holds
GuestPtr_offset(c, count) ==
    /\ handle' = [handle EXCEPT ![c] = wrapping_offset(handle[c], count)]
    /\ counts' = Append(counts, count)
    /\ UNCHANGED <<mem, perm, cpu, old, prev, fatal, origin, s2vars, vmvars, ptvars, fsvars, mmvars>>

\* a caller computes p.offset(n)
OffsetForth ==
    /\ counts = <<>>
    /\ \E n \in ISize : GuestPtr_offset(0, n)

\* the caller computes .offset(-n) of the result
OffsetBack ==
    /\ Len(counts) = 1
    /\ GuestPtr_offset(0, WrappingNeg(counts[1]))

(***************************************************************************)
(* svsm_paging.rs: invalidate_stage2                                       *)
(***************************************************************************)
PAGE_SIZE == 4096
pstart == 0
pend == pstart + (640 * 1024)

\* ReturnErr that leaves the guard's window mapped (the guard is leaked)
ReturnErr_Leak(e) ==
    /\ windows' = windows
    /\ s2_res' = e
    /\ s2_pc' = "done"

\* the early return of the ? operator: the guard of the iteration, if one is
\* alive, is dropped and its window released, and the error is returned
ReturnErr(e) ==
    /\ windows' = {}
    /\ s2_res' = e
    /\ s2_pc' = "done"

\* invalidate_stage2(config) is called
invalidate_stage2 ==
    /\ s2_pc = "idle"
    /\ config' \in BOOLEAN
    /\ paddr' = pstart
    /\ s2_pc' = "while"
    /\ UNCHANGED <<windows, invalidated, psc_log, failed, s2_res, panicked>>
    /\ UNCHANGED <<memvars, offvars, vmvars, ptvars, fsvars, mmvars>>

\* while paddr < pend
While ==
    /\ s2_pc = "while"
    /\ s2_pc' = IF paddr < pend THEN "create_4k" ELSE "psc"
    /\ UNCHANGED <<config, paddr, windows, invalidated, psc_log, failed, s2_res, panicked>>
    /\ UNCHANGED <<memvars, offvars, vmvars, ptvars, fsvars, mmvars>>

\* let guard = PerCPUPageMappingGuard::create_4k(paddr)?  -- the window is mapped
CreateGuard ==
    /\ s2_pc = "create_4k"
    /\ windows' = windows \cup {paddr}
    /\ s2_pc' = "pvalidate"
    /\ UNCHANGED <<config, paddr, invalidated, psc_log, failed, s2_res, panicked>>
    /\ UNCHANGED <<memvars, offvars, vmvars, ptvars, fsvars, mmvars>>

\* PerCPUPageMappingGuard::create_4k(paddr)?  -- the mapping fails
CreateGuardFails ==
    /\ s2_pc = "create_4k"
    /\ failed' = Append(failed, [step |-> "create_4k", paddr |-> paddr])
    /\ ReturnErr("MappingFailure")
    /\ UNCHANGED <<config, paddr, invalidated, psc_log, panicked>>
    /\ UNCHANGED <<memvars, offvars, vmvars, ptvars, fsvars, mmvars>>

\* pvalidate(vaddr, PageSize::Regular, PvalidateOp::Invalid)?  -- succeeds on
\* the page the guard's window maps
Pvalidate ==
    /\ s2_pc = "pvalidate"
    /\ invalidated' = Append(invalidated, paddr)
    /\ s2_pc' = "advance"
    /\ UNCHANGED <<config, paddr, windows, psc_log, failed, s2_res, panicked>>
    /\ UNCHANGED <<memvars, offvars, vmvars, ptvars, fsvars, mmvars>>

\* PvalidateFails without the ?: the error is dropped and the walk goes on
PvalidateFails_Skipped ==
    /\ s2_pc = "pvalidate"
    /\ failed' = Append(failed, [step |-> "pvalidate", paddr |-> paddr])
    /\ s2_pc' = "advance"
    /\ UNCHANGED <<config, paddr, windows, invalidated, psc_log, s2_res, panicked>>
    /\ UNCHANGED <<memvars, offvars, vmvars, ptvars, fsvars, mmvars>>

\* pvalidate(...)?  -- fails
PvalidateFails ==
    /\ s2_pc = "pvalidate"
    /\ failed' = Append(failed, [step |-> "pvalidate", paddr |-> paddr])
    /\ ReturnErr("ArchOperationFailure")
    /\ UNCHANGED <<config, paddr, invalidated, psc_log, panicked>>
    /\ UNCHANGED <<memvars, offvars, vmvars, ptvars, fsvars, mmvars>>

\* paddr = paddr + PAGE_SIZE
Advance ==
    /\ s2_pc = "advance"
    /\ paddr' = paddr + PAGE_SIZE
    /\ s2_pc' = "drop"
    /\ UNCHANGED <<config, windows, invalidated, psc_log, failed, s2_res, panicked>>
    /\ UNCHANGED <<memvars, offvars, vmvars, ptvars, fsvars, mmvars>>

\* the end of the loop body: guard goes out of scope and its window is released
DropGuard ==
    /\ s2_pc = "drop"
    /\ windows' = {}
    /\ s2_pc' = "while"
    /\ UNCHANGED <<config, paddr, invalidated, psc_log, failed, s2_res, panicked>>
    /\ UNCHANGED <<memvars, offvars, vmvars, ptvars, fsvars, mmvars>>

\* the request page_state_change(paddr, pend, PageSize::Regular, PscShared)
PscRequest == [start |-> paddr, end |-> pend, op |-> "PscShared"]

\* if config.page_state_change_required() { ...page_state_change(...) } Ok(())
PageStateChange ==
    /\ s2_pc = "psc"
    /\ psc_log' = IF config THEN Append(psc_log, PscRequest) ELSE psc_log
    /\ s2_res' = "Ok"
    /\ s2_pc' = "done"
    /\ UNCHANGED <<config, paddr, windows, invalidated, failed, panicked>>
    /\ UNCHANGED <<memvars, offvars, vmvars, ptvars, fsvars, mmvars>>

\* page_state_change(...) fails: .expect("Failed to invalidate Stage2 memory")
PageStateChangeFails ==
    /\ s2_pc = "psc"
    /\ config
    /\ psc_log' = Append(psc_log, PscRequest)
    /\ failed' = Append(failed, [step |-> "page_state_change", paddr |-> paddr])
    /\ panicked' = TRUE
    /\ s2_pc' = "panic"
    /\ UNCHANGED <<config, paddr, windows, invalidated, s2_res>>
    /\ UNCHANGED <<memvars, offvars, vmvars, ptvars, fsvars, mmvars>>

InitStage2 ==
    /\ s2_pc = "idle"
    /\ config = FALSE
    /\ paddr = 0
    /\ windows = {}
    /\ invalidated = <<>>
    /\ psc_log = <<>>
    /\ failed = <<>>
    /\ s2_res = "None"
    /\ panicked = FALSE

NextStage2 ==
    \/ invalidate_stage2
    \/ While
    \/ CreateGuard
    \/ CreateGuardFails
    \/ Pvalidate
    \/ PvalidateFails
    \/ Advance
    \/ DropGuard
    \/ PageStateChange
    \/ PageStateChangeFails

(***************************************************************************)
(* sev/vmsa.rs: allocate_new_vmsa                                          *)
(***************************************************************************)
\* number of pages the page allocator manages
PoolPages == 4
Pool == 1..PoolPages
NoPage == 0

\* allocate_new_vmsa() is called
allocate_new_vmsa ==
    /\ vm_pc \in {"idle", "done"}
    /\ vm_pc' = "alloc"
    /\ vmsa_page' = NoPage
    /\ events' = <<>>
    /\ vm_res' = "None"
    /\ free0' = free
    /\ UNCHANGED <<free, rmp>>
    /\ UNCHANGED <<memvars, offvars, s2vars, ptvars, fsvars, mmvars>>

\* let vmsa_page = allocate_zeroed_page()?  -- a free page is handed out
AllocPage ==
    /\ vm_pc = "alloc"
    /\ \E p \in free :
        /\ free' = free \ {p}
        /\ vmsa_page' = p
        /\ events' = Append(events, [ev |-> "alloc", page |-> p])
    /\ vm_pc' = "rmp_adjust"
    /\ UNCHANGED <<rmp, vm_res, free0>>
    /\ UNCHANGED <<memvars, offvars, s2vars, ptvars, fsvars, mmvars>>

\* AllocPageFails without the ?: the role grant is tried on the null page
AllocPageFails_Ignored ==
    /\ vm_pc = "alloc"
    /\ events' = Append(events, [ev |-> "alloc_failed", page |-> NoPage])
    /\ vm_pc' = "rmp_adjust"
    /\ UNCHANGED <<free, vmsa_page, rmp, vm_res, free0>>
    /\ UNCHANGED <<memvars, offvars, s2vars, ptvars, fsvars, mmvars>>

\* allocate_zeroed_page()?  -- fails, and the error is returned
AllocPageFails ==
    /\ vm_pc = "alloc"
    /\ events' = Append(events, [ev |-> "alloc_failed", page |-> NoPage])
    /\ vm_res' = "Err"
    /\ vm_pc' = "done"
    /\ UNCHANGED <<free, vmsa_page, rmp, free0>>
    /\ UNCHANGED <<memvars, offvars, s2vars, ptvars, fsvars, mmvars>>

\* rmp_adjust(vmsa_page, RMPFlags::VMPL1_VMSA, false) succeeds: Ok(vmsa_page)
RmpAdjust ==
    /\ vm_pc = "rmp_adjust"
    /\ rmp' = rmp \cup {vmsa_page}
    /\ events' = Append(events, [ev |-> "rmp_adjust", page |-> vmsa_page])
    /\ vm_res' = "Ok"
    /\ vm_pc' = "done"
    /\ UNCHANGED <<free, vmsa_page, free0>>
    /\ UNCHANGED <<memvars, offvars, s2vars, ptvars, fsvars, mmvars>>

\* rmp_adjust(...) fails: if let Err(_e) = ... {
RmpAdjustFails ==
    /\ vm_pc = "rmp_adjust"
    /\ events' = Append(events, [ev |-> "rmp_adjust_failed", page |-> vmsa_page])
    /\ vm_pc' = "free_page"
    /\ UNCHANGED <<free, vmsa_page, rmp, vm_res, free0>>
    /\ UNCHANGED <<memvars, offvars, s2vars, ptvars, fsvars, mmvars>>

\* FreePage without the free_page call: the error is returned at once
FreePage_Missing ==
    /\ vm_pc = "free_page"
    /\ events' = Append(events, [ev |-> "free_page", page |-> vmsa_page])
    /\ vm_res' = "Err"
    /\ vm_pc' = "done"
    /\ UNCHANGED <<free, vmsa_page, rmp, free0>>
    /\ UNCHANGED <<memvars, offvars, s2vars, ptvars, fsvars, mmvars>>

\* free_page(vmsa_page); return Err(())
FreePage ==
    /\ vm_pc = "free_page"
    /\ free' = free \cup {vmsa_page}
    /\ events' = Append(events, [ev |-> "free_page", page |-> vmsa_page])
    /\ vm_res' = "Err"
    /\ vm_pc' = "done"
    /\ UNCHANGED <<vmsa_page, rmp, free0>>
    /\ UNCHANGED <<memvars, offvars, s2vars, ptvars, fsvars, mmvars>>

InitVmsa ==
    /\ vm_pc = "idle"
    /\ free = Pool
    /\ vmsa_page = NoPage
    /\ rmp = {}
    /\ events = <<>>
    /\ vm_res = "None"
    /\ free0 = Pool

NextVmsa ==
    \/ allocate_new_vmsa
    \/ AllocPage
    \/ AllocPageFails
    \/ RmpAdjust
    \/ RmpAdjustFails
    \/ FreePage

(***************************************************************************)
(* svsm_paging.rs: init_page_table                                         *)
(***************************************************************************)
\* the largest number of loadable segments of the image
MaxSegs == 2

\* VirtAddr::page_align_up
page_align_up(a) == ((a + PAGE_SIZE - 1) \div PAGE_SIZE) * PAGE_SIZE

\* elf::Elf64PhdrFlags
Elf64PhdrFlags == {"READ", "WRITE", "EXECUTE"}

\* launch_info.kernel_region_virt_start and kernel_region_phys_start
KernelVirtStart == 512 * PAGE_SIZE
KernelPhysStart == 2048 * PAGE_SIZE

\* the k-th loadable segment the image may have: its virtual range begins
\* on a page (the image is linked that way) and ends anywhere
SegmentsAt(k) ==
    LET begin == KernelVirtStart + (k - 1) * 2 * PAGE_SIZE IN
    [vaddr_begin : {begin},
     vaddr_end   : {begin + 100, begin + PAGE_SIZE + 1},
     flags       : SUBSET Elf64PhdrFlags]

\* kernel_elf.image_load_segment_iter(launch_info.kernel_region_virt_start)
Images ==
    UNION { { img \in [1..n -> UNION { SegmentsAt(k) : k \in 1..n }] :
                \A k \in 1..n : img[k] \in SegmentsAt(k) } : n \in 1..MaxSegs }

\* what IgvmParams reports of the launch-parameter block at an address
IgvmParams == [reserved_kernel_area_size |-> 2 * PAGE_SIZE, size |-> PAGE_SIZE + 512]

\* the KernelLaunchInfo the prior stage may pass: with and without a
\* launch-parameter block
LaunchInfos ==
    { [kernel_region_phys_start |-> KernelPhysStart,
       kernel_region_virt_start |-> KernelVirtStart,
       igvm_params_virt_addr    |-> v,
       igvm_params_phys_addr    |-> IF v = 0 THEN 0 ELSE KernelPhysStart,
       heap_area_virt_start     |-> 1024 * PAGE_SIZE,
       heap_area_virt_end       |-> 1028 * PAGE_SIZE,
       heap_area_phys_start     |-> KernelPhysStart + 16 * PAGE_SIZE] :
      v \in {0, 768 * PAGE_SIZE} }

\* Option: None is <<>>, Some(x) is <<x>>
NoIgvm == [virt_addr |-> 0, igvm_params |-> <<>>]

\* pgtable.map_region(vstart, vend, paddr, flags) succeeded
MapRegion(vstart, vend, pa, flags) ==
    Append(pgtable, [vstart |-> vstart, vend |-> vend, paddr |-> pa, flags |-> flags])

\* .expect(msg) on an Err: the monitor panics
Expect(msg) ==
    /\ pt_pc' = "panic"
    /\ pt_panic' = msg
    /\ UNCHANGED <<launch_info, kernel_elf, igvm_param_info, phys, seg_i, pgtable,
                   loaded, init_pgtable>>
    /\ UNCHANGED <<memvars, offvars, s2vars, vmvars, fsvars, mmvars>>

\* init_page_table(launch_info, kernel_elf) is called
init_page_table ==
    /\ pt_pc = "idle"
    /\ pt_pc' = "alloc"
    /\ UNCHANGED <<launch_info, kernel_elf, igvm_param_info, phys, seg_i, pgtable,
                   loaded, init_pgtable, pt_panic>>
    /\ UNCHANGED <<memvars, offvars, s2vars, vmvars, fsvars, mmvars>>

\* allocate_zeroed_page() succeeds; PageTableRef::new
AllocRoot ==
    /\ pt_pc = "alloc"
    /\ pgtable' = <<>>
    /\ pt_pc' = "igvm_info"
    /\ UNCHANGED <<launch_info, kernel_elf, igvm_param_info, phys, seg_i,
                   loaded, init_pgtable, pt_panic>>
    /\ UNCHANGED <<memvars, offvars, s2vars, vmvars, fsvars, mmvars>>

\* allocate_zeroed_page().expect(..) fails
AllocRootFails ==
    /\ pt_pc = "alloc"
    /\ Expect("Failed to allocate root page-table")

\* if launch_info.igvm_params_virt_addr != 0
IgvmPresent_Always(l) == TRUE

IgvmPresent(l) == l.igvm_params_virt_addr # 0

\* let igvm_param_info = ...; let mut phys = ...; if let Some(..) { phys = phys + reserved }
IgvmInfo ==
    /\ pt_pc = "igvm_info"
    /\ LET info == IF IgvmPresent(launch_info)
                   THEN [virt_addr |-> launch_info.igvm_params_virt_addr,
                         igvm_params |-> <<IgvmParams>>]
                   ELSE NoIgvm
       IN /\ igvm_param_info' = info
          /\ phys' = IF info.igvm_params # <<>>
                     THEN launch_info.kernel_region_phys_start
                          + info.igvm_params[1].reserved_kernel_area_size
                     ELSE launch_info.kernel_region_phys_start
    /\ seg_i' = 1
    /\ pt_pc' = "segments"
    /\ UNCHANGED <<launch_info, kernel_elf, pgtable, loaded, init_pgtable, pt_panic>>
    /\ UNCHANGED <<memvars, offvars, s2vars, vmvars, fsvars, mmvars>>

\* the mapping flags of a segment, with write tested before execute
SegmentFlags_WriteFirst(flags) ==
    IF "WRITE" \in flags THEN "data"
    ELSE IF "EXECUTE" \in flags THEN "exec"
    ELSE "data_ro"

\* let flags = if segment.flags.contains(EXECUTE) {exec()} else if
\* segment.flags.contains(WRITE) {data()} else {data_ro()}
SegmentFlags(flags) ==
    IF "EXECUTE" \in flags THEN "exec"
    ELSE IF "WRITE" \in flags THEN "data"
    ELSE "data_ro"

\* the segment length taken up to the segment's end, not the page's
segment_len_Unaligned(segment) == segment.vaddr_end - segment.vaddr_begin

\* let segment_len = aligned_vaddr_end - vaddr_start
segment_len(segment) == page_align_up(segment.vaddr_end) - segment.vaddr_begin

\* one iteration of the loop over the segments: map_region succeeds
MapSegment ==
    /\ pt_pc = "segments"
    /\ seg_i <= Len(kernel_elf)
    /\ LET segment == kernel_elf[seg_i]
           vaddr_start == segment.vaddr_begin
           aligned_vaddr_end == page_align_up(segment.vaddr_end)
       IN /\ pgtable' = MapRegion(vaddr_start, aligned_vaddr_end, phys,
                                  SegmentFlags(segment.flags))
          /\ phys' = phys + segment_len(segment)
    /\ seg_i' = seg_i + 1
    /\ UNCHANGED <<pt_pc, launch_info, kernel_elf, igvm_param_info,
                   loaded, init_pgtable, pt_panic>>
    /\ UNCHANGED <<memvars, offvars, s2vars, vmvars, fsvars, mmvars>>

\* map_region(..).expect("Failed to map kernel ELF segment") fails
MapSegmentFails ==
    /\ pt_pc = "segments"
    /\ seg_i <= Len(kernel_elf)
    /\ Expect("Failed to map kernel ELF segment")

\* the loop over the segments ends
SegmentsDone ==
    /\ pt_pc = "segments"
    /\ seg_i > Len(kernel_elf)
    /\ pt_pc' = "igvm"
    /\ UNCHANGED <<launch_info, kernel_elf, igvm_param_info, phys, seg_i, pgtable,
                   loaded, init_pgtable, pt_panic>>
    /\ UNCHANGED <<memvars, offvars, s2vars, vmvars, fsvars, mmvars>>

\* if let Some(ref igvm_params) = igvm_param_info.igvm_params: map_region succeeds
MapIgvm ==
    /\ pt_pc = "igvm"
    /\ igvm_param_info.igvm_params # <<>>
    /\ pgtable' = MapRegion(igvm_param_info.virt_addr,
                            igvm_param_info.virt_addr + igvm_param_info.igvm_params[1].size,
                            launch_info.igvm_params_phys_addr,
                            "data")
    /\ pt_pc' = "heap"
    /\ UNCHANGED <<launch_info, kernel_elf, igvm_param_info, phys, seg_i,
                   loaded, init_pgtable, pt_panic>>
    /\ UNCHANGED <<memvars, offvars, s2vars, vmvars, fsvars, mmvars>>

\* map_region(..).expect("Failed to map IGVM parameters") fails
MapIgvmFails ==
    /\ pt_pc = "igvm"
    /\ igvm_param_info.igvm_params # <<>>
    /\ Expect("Failed to map IGVM parameters")

\* no launch-parameter block: nothing to map
SkipIgvm ==
    /\ pt_pc = "igvm"
    /\ igvm_param_info.igvm_params = <<>>
    /\ pt_pc' = "heap"
    /\ UNCHANGED <<launch_info, kernel_elf, igvm_param_info, phys, seg_i, pgtable,
                   loaded, init_pgtable, pt_panic>>
    /\ UNCHANGED <<memvars, offvars, s2vars, vmvars, fsvars, mmvars>>

\* map_region(heap_area_virt_start, heap_area_virt_end(), heap_area_phys_start, data())
MapHeap ==
    /\ pt_pc = "heap"
    /\ pgtable' = MapRegion(launch_info.heap_area_virt_start,
                            launch_info.heap_area_virt_end,
                            launch_info.heap_area_phys_start,
                            "data")
    /\ pt_pc' = "load"
    /\ UNCHANGED <<launch_info, kernel_elf, igvm_param_info, phys, seg_i,
                   loaded, init_pgtable, pt_panic>>
    /\ UNCHANGED <<memvars, offvars, s2vars, vmvars, fsvars, mmvars>>

\* MapHeapFails with the error dropped: the table is loaded without the heap
MapHeapFails_Ignored ==
    /\ pt_pc = "heap"
    /\ pt_pc' = "load"
    /\ UNCHANGED <<launch_info, kernel_elf, igvm_param_info, phys, seg_i, pgtable,
                   loaded, init_pgtable, pt_panic>>
    /\ UNCHANGED <<memvars, offvars, s2vars, vmvars, fsvars, mmvars>>

\* map_region(..).expect("Failed to map heap") fails
MapHeapFails ==
    /\ pt_pc = "heap"
    /\ Expect("Failed to map heap")

\* pgtable.load()
Load ==
    /\ pt_pc = "load"
    /\ loaded' = TRUE
    /\ pt_pc' = "publish"
    /\ UNCHANGED <<launch_info, kernel_elf, igvm_param_info, phys, seg_i, pgtable,
                   init_pgtable, pt_panic>>
    /\ UNCHANGED <<memvars, offvars, s2vars, vmvars, fsvars, mmvars>>

\* set_init_pgtable(pgtable)
set_init_pgtable ==
    /\ pt_pc = "publish"
    /\ init_pgtable' = pgtable
    /\ pt_pc' = "done"
    /\ UNCHANGED <<launch_info, kernel_elf, igvm_param_info, phys, seg_i, pgtable,
                   loaded, pt_panic>>
    /\ UNCHANGED <<memvars, offvars, s2vars, vmvars, fsvars, mmvars>>

\* the state before init_page_table
InitPgtable ==
    /\ pt_pc = "idle"
    /\ igvm_param_info = NoIgvm
    /\ phys = 0
    /\ seg_i = 0
    /\ pgtable = <<>>
    /\ loaded = FALSE
    /\ init_pgtable = <<>>
    /\ pt_panic = ""

\* the inputs of the one init_page_table call of a boot
InitLaunch ==
    /\ launch_info \in LaunchInfos
    /\ kernel_elf \in Images

\* no boot in progress
InitNoLaunch ==
    /\ launch_info = CHOOSE l \in LaunchInfos : l.igvm_params_virt_addr = 0
    /\ kernel_elf = <<>>

NextPgtable ==
    \/ init_page_table
    \/ AllocRoot
    \/ AllocRootFails
    \/ IgvmInfo
    \/ MapSegment
    \/ MapSegmentFails
    \/ SegmentsDone
    \/ MapIgvm
    \/ MapIgvmFails
    \/ SkipIgvm
    \/ MapHeap
    \/ MapHeapFails
    \/ Load
    \/ set_init_pgtable

(***************************************************************************)
(* fs/ramfs.rs: RamFile                                                    *)
(***************************************************************************)
\* the pages the allocator can give to files
MaxFilePages == 2

\* the largest usize the model's integers hold
usize_MAX == 2^30

\* utils::page_offset
page_offset(a) == a % PAGE_SIZE

\* Result<usize, SvsmError>; a panic is an outcome of its own
FsOk(n) == [tag |-> "Ok", val |-> n]
FsErr(e) == [tag |-> e, val |-> 0]

Min(a, b) == IF a < b THEN a ELSE b
Max(a, b) == IF a > b THEN a ELSE b

\* a page holds PAGE_SIZE bytes; it is kept as the bytes stored in it, and
\* every other byte of it is zero
ZeroPage == [i \in {} |-> 0]
PageByte(pg, i) == IF i \in DOMAIN pg THEN pg[i] ELSE 0

\* page_buf[page_index..page_end].copy_from_slice(buf)
CopyToPage(pg, page_index, buf) ==
    [i \in DOMAIN pg \cup { page_index + k - 1 : k \in 1..Len(buf) } |->
        IF i >= page_index /\ i < page_index + Len(buf)
        THEN buf[i - page_index + 1] ELSE pg[i]]

\* zero_mem_region(vaddr + from, vaddr + PAGE_SIZE)
ZeroFrom(pg, from) == [i \in { j \in DOMAIN pg : j < from } |-> pg[i]]

\* allocate_file_page_ref() hands out a zeroed page
allocate_file_page_ref == ZeroPage

\* increase_capacity that counts the page without keeping it
increase_capacity_NoPage(f) == [f EXCEPT !.capacity = f.capacity + PAGE_SIZE]

\* increase_capacity: the allocation succeeded
increase_capacity(f) ==
    [f EXCEPT !.pages = Append(f.pages, allocate_file_page_ref),
              !.capacity = f.capacity + PAGE_SIZE]

\* set_capacity(capacity), when the allocator gives `avail` more pages and
\* then fails
RECURSIVE set_capacity(_, _, _)
set_capacity(f, capacity, avail) ==
    LET cap == page_align_up(capacity) IN
    IF cap > f.capacity
    THEN IF avail > 0
         THEN set_capacity(increase_capacity(f), capacity, avail - 1)
         ELSE [file |-> f, res |-> FsErr("AllocationFailure")]
    ELSE [file |-> f, res |-> FsOk(0)]

\* self.pages[index]: whether the file holds the page of an offset
HoldsPage(f, offset, len) ==
    /\ page_offset(offset) + len <= PAGE_SIZE
    /\ offset \div PAGE_SIZE < Len(f.pages)

\* read_from_page(buf, offset): the bytes copied into buf
read_from_page(f, len, offset) ==
    LET pg == f.pages[(offset \div PAGE_SIZE) + 1] IN
    [k \in 1..len |-> PageByte(pg, page_offset(offset) + k - 1)]

\* write_to_page(buf, offset)
write_to_page(f, buf, offset) ==
    LET index == (offset \div PAGE_SIZE) + 1 IN
    [f EXCEPT !.pages[index] = CopyToPage(f.pages[index], page_offset(offset), buf)]

\* the outcome of a call: the file after it, its result, the caller's buffer
Outcome(f, res, buf) == [file |-> f, res |-> res, buf |-> buf]
Panic == [tag |-> "panic", val |-> 0]

\* the end of the page without regard to the end of the file
PageEnd_NoEof(f, current) == page_align_up(current + 1)

\* let page_end = min(page_align_up(current + 1), self.size)
PageEnd(f, current) == Min(page_align_up(current + 1), f.size)

\* the loop of RawRamFile::read
RECURSIVE ReadLoop(_, _, _, _, _, _)
ReadLoop(f, buf, current, len, bytes, buf_offset) ==
    IF len > 0
    THEN LET page_end == PageEnd(f, current)
             page_len == Min(page_end - current, len)
             buf_end == buf_offset + page_len
         IN IF page_len = 0 THEN Outcome(f, FsOk(bytes), buf)
            ELSE IF ~HoldsPage(f, current, page_len) THEN Outcome(f, Panic, buf)
            ELSE ReadLoop(f,
                          SubSeq(buf, 1, buf_offset)
                              \o read_from_page(f, page_len, current)
                              \o SubSeq(buf, buf_end + 1, Len(buf)),
                          current + page_len, len - page_len, bytes + page_len, buf_end)
    ELSE Outcome(f, FsOk(bytes), buf)

\* RawRamFile::read(&self, buf, offset)
RawRamFile_read(f, buf, offset) ==
    ReadLoop(f, buf, Min(offset, f.size), Len(buf), 0, 0)

\* the new size taken from the end of the chunk alone
NewSize_Overwritten(f, current, page_len) == current + page_len

\* self.size = max(self.size, current + page_len)
NewSize(f, current, page_len) == Max(f.size, current + page_len)

\* the loop of RawRamFile::write
RECURSIVE WriteLoop(_, _, _, _, _, _)
WriteLoop(f, buf, current, len, bytes, buf_offset) ==
    IF len > 0
    THEN LET page_len == Min(PAGE_SIZE - page_offset(current), len)
             buf_end == buf_offset + page_len
         IN IF ~HoldsPage(f, current, page_len) THEN Outcome(f, Panic, buf)
            ELSE WriteLoop([write_to_page(f, SubSeq(buf, buf_offset + 1, buf_end), current)
                               EXCEPT !.size = NewSize(f, current, page_len)],
                           buf, current + page_len, len - page_len, bytes + page_len, buf_end)
    ELSE Outcome(f, FsOk(bytes), buf)

\* RawRamFile::write(&mut self, buf, offset), the allocator giving `avail`
\* more pages
RawRamFile_write(f, buf, offset, avail) ==
    IF offset + Len(buf) > usize_MAX
    THEN Outcome(f, FsErr("inval"), buf)
    ELSE LET sc == set_capacity(f, offset + Len(buf), avail) IN
         IF sc.res.tag # "Ok" THEN Outcome(sc.file, sc.res, buf)
         ELSE WriteLoop(sc.file, buf, offset, Len(buf), 0, 0)

\* the tail of RawRamFile::truncate without the clearing of the last page
TruncateTail_NotCleared(pages, offset) == pages

\* if offset > 0 { zero_mem_region(vaddr + offset, vaddr + PAGE_SIZE) } on
\* the last page
TruncateTail(pages, offset) ==
    IF offset > 0
    THEN [pages EXCEPT ![Len(pages)] = ZeroFrom(pages[Len(pages)], offset)]
    ELSE pages

\* RawRamFile::truncate with the size check the wrong way round
RawRamFile_truncate_Unchecked(f, size) ==
    LET new_pages == IF page_offset(size) > 0 THEN size \div PAGE_SIZE + 1
                     ELSE size \div PAGE_SIZE
        kept == IF Len(f.pages) > new_pages THEN SubSeq(f.pages, 1, new_pages) ELSE f.pages
    IN IF page_offset(size) > 0 /\ kept = <<>>
       THEN Outcome([f EXCEPT !.pages = kept, !.capacity = new_pages * PAGE_SIZE,
                              !.size = size], Panic, <<>>)
       ELSE Outcome([pages |-> TruncateTail(kept, page_offset(size)),
                     capacity |-> new_pages * PAGE_SIZE,
                     size |-> size], FsOk(size), <<>>)

\* RawRamFile::truncate(&mut self, size)
RawRamFile_truncate(f, size) ==
    IF size > f.size
    THEN Outcome(f, FsErr("inval"), <<>>)
    ELSE LET offset == page_offset(size)
             base_pages == size \div PAGE_SIZE
             new_pages == IF offset > 0 THEN base_pages + 1 ELSE base_pages
             \* while self.pages.len() > new_pages { pop, zero, drop }
             kept == IF Len(f.pages) > new_pages
                     THEN SubSeq(f.pages, 1, new_pages) ELSE f.pages
         IN IF offset > 0 /\ kept = <<>>
            THEN Outcome([f EXCEPT !.pages = kept, !.capacity = new_pages * PAGE_SIZE,
                                   !.size = size], Panic, <<>>)
            ELSE Outcome([pages |-> TruncateTail(kept, offset),
                          capacity |-> new_pages * PAGE_SIZE,
                          size |-> size], FsOk(size), <<>>)

\* what callers pass: offsets and sizes around the page boundaries, buffers
\* to write, and buffers to read into (filled with 0xcc)
Offsets == {0, 1, PAGE_SIZE - 1, 2 * PAGE_SIZE}
TruncateSizes == {0, 1, PAGE_SIZE, 2 * PAGE_SIZE}
WriteBufs == { [i \in 1..n |-> 16 * n + i] : n \in 0..2 }
ReadBufs == { [i \in 1..n |-> 204] : n \in 0..3 }

NoCall == [op |-> "none", buf |-> <<>>, offset |-> 0, res |-> FsOk(0), out |-> <<>>]

\* File::write for RamFile: self.rawfile.lock_write().write(buf, offset)
RamFile_write ==
    /\ fs_call.res # Panic
    /\ \E buf \in WriteBufs, offset \in Offsets, avail \in 0..(MaxFilePages - Len(file.pages)) :
        LET r == RawRamFile_write(file, buf, offset, avail) IN
        /\ file' = r.file
        /\ fs_call' = [op |-> "write", buf |-> buf, offset |-> offset,
                       res |-> r.res, out |-> <<>>]
        /\ written' = IF r.res.tag = "Ok"
                      THEN written \cup { offset + k - 1 : k \in 1..Len(buf) }
                      ELSE written
    /\ UNCHANGED <<memvars, offvars, s2vars, vmvars, ptvars, mmvars>>

\* File::read for RamFile: self.rawfile.lock_read().read(buf, offset)
RamFile_read ==
    /\ fs_call.res # Panic
    /\ \E buf \in ReadBufs, offset \in Offsets :
        LET r == RawRamFile_read(file, buf, offset) IN
        /\ file' = r.file
        /\ fs_call' = [op |-> "read", buf |-> buf, offset |-> offset,
                       res |-> r.res, out |-> r.buf]
    /\ UNCHANGED written
    /\ UNCHANGED <<memvars, offvars, s2vars, vmvars, ptvars, mmvars>>

\* File::truncate for RamFile: self.rawfile.lock_write().truncate(size)
RamFile_truncate ==
    /\ fs_call.res # Panic
    /\ \E size \in TruncateSizes :
        LET r == RawRamFile_truncate(file, size) IN
        /\ file' = r.file
        /\ fs_call' = [op |-> "truncate", buf |-> <<>>, offset |-> size,
                       res |-> r.res, out |-> <<>>]
        /\ written' = IF r.res.tag = "Ok" THEN { i \in written : i < size } ELSE written
    /\ UNCHANGED <<memvars, offvars, s2vars, vmvars, ptvars, mmvars>>

NextFs ==
    \/ RamFile_write
    \/ RamFile_read
    \/ RamFile_truncate

\* a RamFile as RamFile::new() makes it
InitFs ==
    /\ file = [capacity |-> 0, size |-> 0, pages |-> <<>>]
    /\ written = {}
    /\ fs_call = NoCall

(***************************************************************************)
(* mm/memory.rs: the guest memory map                                      *)
(***************************************************************************)
\* the largest number of regions the firmware reports
MaxRegions == 2

\* physical addresses, in units that keep the map small
PhysAddrs == 0..(3 * MaxRegions)

\* fw_cfg::MemoryRegion
MemoryRegion == { r \in [start : PhysAddrs, end : PhysAddrs] : r.start < r.end }

\* fwcfg.get_memory_regions(): regions in ascending order that do not overlap
FwMemoryMaps ==
    UNION { { m \in [1..n -> MemoryRegion] :
                \A i \in 1..(n - 1) : m[i].end <= m[i + 1].start } : n \in 1..MaxRegions }

\* init_memory_map(fwcfg, launch_info) is called
init_memory_map ==
    /\ mm_pc = "idle"
    /\ mm_pc' = "get_regions"
    /\ UNCHANGED <<fw_regions, kernel_start, regions, reg_i, MEMORY_MAP, mm_res>>
    /\ UNCHANGED <<memvars, offvars, s2vars, vmvars, ptvars, fsvars>>

\* let mut regions = fwcfg.get_memory_regions()?
GetMemoryRegions ==
    /\ mm_pc = "get_regions"
    /\ regions' = fw_regions
    /\ reg_i' = 1
    /\ mm_pc' = "trim"
    /\ UNCHANGED <<fw_regions, kernel_start, MEMORY_MAP, mm_res>>
    /\ UNCHANGED <<memvars, offvars, s2vars, vmvars, ptvars, fsvars>>

\* fwcfg.get_memory_regions()? fails: the error is returned
GetMemoryRegionsFails ==
    /\ mm_pc = "get_regions"
    /\ mm_res' = "Err"
    /\ mm_pc' = "done"
    /\ UNCHANGED <<fw_regions, kernel_start, regions, reg_i, MEMORY_MAP>>
    /\ UNCHANGED <<memvars, offvars, s2vars, vmvars, ptvars, fsvars>>

\* (launch_info.kernel_start > region.start) && (launch_info.kernel_start < region.end)
HoldsKernelStart(region) ==
    (kernel_start > region.start) /\ (kernel_start < region.end)

\* one iteration of the loop: region.end = launch_info.kernel_start
TrimRegion ==
    /\ mm_pc = "trim"
    /\ reg_i <= Len(regions)
    /\ HoldsKernelStart(regions[reg_i])
    /\ regions' = [regions EXCEPT ![reg_i].end = kernel_start]
    /\ reg_i' = reg_i + 1
    /\ UNCHANGED <<mm_pc, fw_regions, kernel_start, MEMORY_MAP, mm_res>>
    /\ UNCHANGED <<memvars, offvars, s2vars, vmvars, ptvars, fsvars>>

\* one iteration of the loop: the condition is false, the region is kept
KeepRegion ==
    /\ mm_pc = "trim"
    /\ reg_i <= Len(regions)
    /\ ~HoldsKernelStart(regions[reg_i])
    /\ reg_i' = reg_i + 1
    /\ UNCHANGED <<mm_pc, fw_regions, kernel_start, regions, MEMORY_MAP, mm_res>>
    /\ UNCHANGED <<memvars, offvars, s2vars, vmvars, ptvars, fsvars>>

\* unsafe { MEMORY_MAP = regions; } Ok(())
SetMemoryMap ==
    /\ mm_pc = "trim"
    /\ reg_i > Len(regions)
    /\ MEMORY_MAP' = regions
    /\ mm_res' = "Ok"
    /\ mm_pc' = "done"
    /\ UNCHANGED <<fw_regions, kernel_start, regions, reg_i>>
    /\ UNCHANGED <<memvars, offvars, s2vars, vmvars, ptvars, fsvars>>

\* valid_phys_address(addr)
valid_phys_address(addr) ==
    \E i \in 1..Len(MEMORY_MAP) : addr >= MEMORY_MAP[i].start /\ addr < MEMORY_MAP[i].end

\* the state before init_memory_map: static mut MEMORY_MAP = Vec::new()
InitMemoryMap ==
    /\ mm_pc = "idle"
    /\ regions = <<>>
    /\ reg_i = 0
    /\ MEMORY_MAP = <<>>
    /\ mm_res = "None"

\* the arguments of the one init_memory_map call of a boot
InitFirmware ==
    /\ fw_regions \in FwMemoryMaps
    /\ kernel_start \in PhysAddrs

\* no firmware map is looked at
InitNoFirmware ==
    /\ fw_regions = <<>>
    /\ kernel_start = 0

NextMemoryMap ==
    \/ init_memory_map
    \/ GetMemoryRegions
    \/ GetMemoryRegionsFails
    \/ TrimRegion
    \/ KeepRegion
    \/ SetMemoryMap

(***************************************************************************)
(* Specifications                                                          *)
(***************************************************************************)
vars == <<memvars, offvars, s2vars, vmvars, ptvars, fsvars, mmvars>>

InitMemSys ==
    /\ mem = InitMem
    /\ cpu = [c \in CPUS |-> IdleCpu]
    /\ old = [c \in CPUS |-> InitMem]
    /\ prev = [c \in CPUS |-> NoPrev]
    /\ fatal = FALSE

InitOffset ==
    /\ origin = handle[0]
    /\ counts = <<>>

\* one CPU holds a handle
InitMem1 ==
    /\ InitMemSys
    /\ perm \in Layouts
    /\ handle \in [CPUS -> Handles]
    /\ handle[1] = [ptr |-> 0, size |-> 0]
    /\ InitOffset
    /\ InitStage2
    /\ InitVmsa
    /\ InitPgtable
    /\ InitNoLaunch
    /\ InitFs
    /\ InitMemoryMap
    /\ InitNoFirmware

\* one CPU makes any number of calls through its handle
NextMem == Call(0) \/ Exec(0)

SpecMem == InitMem1 /\ [][NextMem]_vars

\* two CPUs make one call each, concurrently
InitSMP ==
    /\ InitMemSys
    /\ perm \in LayoutsSMP
    /\ handle \in [CPUS -> Handles]
    /\ InitOffset
    /\ InitStage2
    /\ InitVmsa
    /\ InitPgtable
    /\ InitNoLaunch
    /\ InitFs
    /\ InitMemoryMap
    /\ InitNoFirmware

NextSMP ==
    \E c \in CPUS : (cpu[c].pc = "idle" /\ Call(c)) \/ Exec(c)

SpecSMP == InitSMP /\ [][NextSMP]_vars

\* one CPU calls every access primitive on the address of its handle
InitPrims ==
    /\ InitMemSys
    /\ perm \in LayoutsSMP
    /\ handle \in [CPUS -> Handles]
    /\ handle[1] = [ptr |-> 0, size |-> 0]
    /\ InitOffset
    /\ InitStage2
    /\ InitVmsa
    /\ InitPgtable
    /\ InitNoLaunch
    /\ InitFs
    /\ InitMemoryMap
    /\ InitNoFirmware

NextPrims == CallPrim(0) \/ Exec(0)

SpecPrims == InitPrims /\ [][NextPrims]_vars

\* a caller moves a handle forth and back
NextOffset == OffsetForth \/ OffsetBack

SpecOffset == InitMem1 /\ [][NextOffset]_vars

\* the boot CPU tears down the stage-2 memory
InitBoot ==
    /\ InitMemSys
    /\ perm = <<"none", "rw", "rw", "ro">>
    /\ handle = [c \in CPUS |-> [ptr |-> 0, size |-> 0]]
    /\ InitOffset
    /\ InitStage2
    /\ InitVmsa
    /\ InitPgtable
    /\ InitNoLaunch
    /\ InitFs
    /\ InitMemoryMap
    /\ InitNoFirmware

SpecStage2 == InitBoot /\ [][NextStage2]_vars

\* VMSA pages are allocated one call after the other
SpecVmsa == InitBoot /\ [][NextVmsa]_vars

\* the boot CPU builds and installs the monitor's page table
InitPaging ==
    /\ InitMemSys
    /\ perm = <<"none", "rw", "rw", "ro">>
    /\ handle = [c \in CPUS |-> [ptr |-> 0, size |-> 0]]
    /\ InitOffset
    /\ InitStage2
    /\ InitVmsa
    /\ InitPgtable
    /\ InitLaunch
    /\ InitFs
    /\ InitMemoryMap
    /\ InitNoFirmware

SpecPgtable == InitPaging /\ [][NextPgtable]_vars

\* callers use one RamFile, one call after the other (the file's lock
\* admits one writer at a time)
SpecFs == InitBoot /\ [][NextFs]_vars

\* the boot CPU sets up the guest memory map from the firmware's regions
InitGuestMap ==
    /\ InitMemSys
    /\ perm = <<"none", "rw", "rw", "ro">>
    /\ handle = [c \in CPUS |-> [ptr |-> 0, size |-> 0]]
    /\ InitOffset
    /\ InitStage2
    /\ InitVmsa
    /\ InitPgtable
    /\ InitNoLaunch
    /\ InitFs
    /\ InitMemoryMap
    /\ InitFirmware

SpecMemoryMap == InitGuestMap /\ [][NextMemoryMap]_vars

(***************************************************************************)
(* Claims about guestmem.rs                                                *)
(***************************************************************************)
\* the addresses a call touches when it runs to its end
Range(r) == { (r.ptr + i) % AddrSpace : i \in 0..(r.size - 1) }
IsRead(r) == r.op \in Reads
IsWrite(r) == r.op \in {"write", "write_u8"}
Accessible(r, a) == IF IsRead(r) THEN Readable(a) ELSE Writable(a)
\* the whole target range is backed by memory the call may access
Backed(r) == \A a \in Range(r) : Accessible(r, a)
Done(c) == cpu[c].pc = "done"
Straddles(r) == r.size >= 2 /\ PageOf(r.ptr) # PageOf((r.ptr + r.size - 1) % AddrSpace)

\* C1 as stated: a GuestPtr read or write whose address is not backed by
\* accessible memory returns Err(InvalidAddress), for every payload type
C1_AsStated ==
    \A c \in CPUS :
        (Done(c) /\ cpu[c].op \in {"read", "write"} /\ ~Accessible(cpu[c], cpu[c].ptr)) =>
            cpu[c].res.tag = "InvalidAddress"

\* C1, amended to payload types of non-zero size: a call whose target range
\* holds a byte that is not accessible (address zero, an unmapped page, a
\* read-only page for a write, a range that becomes inaccessible part-way)
\* returns Err(InvalidAddress) without a value, an Ok read never hands out an
\* uninitialised byte, and no fault ends the monitor
C1_FaultContainment ==
    /\ ~fatal
    /\ \A c \in CPUS :
        /\ cpu[c].pc # "dead"
        /\ (Done(c) /\ ~Backed(cpu[c])) => cpu[c].res = [tag |-> "InvalidAddress", val |-> <<>>]
        /\ (Done(c) /\ cpu[c].ptr = 0 /\ cpu[c].size > 0) => cpu[c].res.tag = "InvalidAddress"
        /\ (Done(c) /\ cpu[c].res.tag = "Ok") =>
              \A i \in 1..Len(cpu[c].res.val) : cpu[c].res.val[i] # Uninit

\* a read that faulted after some bytes had been copied
C1_Witness ==
    /\ Done(0) /\ cpu[0].op = "read" /\ cpu[0].moved >= 1
    /\ cpu[0].moved < cpu[0].size
    /\ cpu[0].res.tag = "InvalidAddress"

\* C2: on a range that is wholly mapped and writable, write(v) returns Ok and
\* the read() that follows it on the same handle returns Ok(v); write_u8(a, b)
\* followed by read_u8(a) returns Ok(b)
C2_RoundTrip ==
    \A c \in CPUS :
        LET r == cpu[c] IN
        (Done(c) /\ (\A a \in Range(r) : Writable(a))) =>
            /\ (r.op = "write" => r.res = Ok(<<>>))
            /\ (r.op = "write_u8" => r.res = Ok(<<>>))
            /\ (r.op = "read" /\ prev[c].op = "write") =>
                   (prev[c].res.tag = "Ok" /\ r.res = Ok(prev[c].src))
            /\ (r.op = "read_u8" /\ prev[c].op = "write_u8") =>
                   (prev[c].res.tag = "Ok" /\ r.res = Ok(prev[c].src))

\* a value written across a page boundary and read back
C2_Witness ==
    /\ Done(0) /\ cpu[0].op = "read" /\ prev[0].op = "write"
    /\ Straddles(cpu[0])
    /\ cpu[0].res.tag = "Ok" /\ cpu[0].res.val = prev[0].src

\* C3: while and after a write of n bytes to a, memory differs from what it
\* was at the call only in the prefix [a, a+k) copied so far, which holds the
\* first k payload bytes; k = n when the call returns Ok and k < n when it
\* returns an error; the handle is not changed
C3_WriteFrame ==
    LET r == cpu[0] IN
    IsWrite(r) =>
        /\ r.moved <= r.size
        /\ \A a \in Addr :
              LET off == (a - r.ptr) % AddrSpace IN
              IF off < r.moved /\ off < r.size
              THEN mem[a] = r.src[off + 1]
              ELSE mem[a] = old[0][a]
        /\ (Done(0) /\ r.res.tag = "Ok") => r.moved = r.size
        /\ (Done(0) /\ r.res.tag # "Ok") => r.moved < r.size
        /\ r.ptr = handle[0].ptr

\* a write that faulted after a prefix of the payload had reached memory
C3_Witness ==
    /\ Done(0) /\ cpu[0].op = "write" /\ cpu[0].moved >= 1
    /\ cpu[0].res.tag = "InvalidAddress"
    /\ mem[cpu[0].ptr] = cpu[0].src[1]

\* C4: p.offset(n).offset(-n) holds the address of p, for every handle and
\* every isize n, and computing it touches neither memory nor the CPU
C4_OffsetGroupLaw ==
    /\ Len(counts) = 2 => handle[0].ptr = origin.ptr
    /\ Len(counts) >= 1 => (mem = InitMem /\ ~fatal /\ cpu[0] = IdleCpu)

\* an offset that wrapped around the top of the address space and came back
C4_Witness ==
    /\ Len(counts) = 2
    /\ counts[1] > 0
    /\ origin.ptr + counts[1] * origin.size >= AddrSpace
    /\ origin.size = 2
    /\ handle[0].ptr = origin.ptr

\* the call r as it was entered
Entry(r) ==
    [r EXCEPT !.pc = IF r.op \in {"read", "write"} THEN "movsb" ELSE "mov",
              !.buf = IF IsRead(r) THEN [i \in 1..r.size |-> Uninit] ELSE <<>>,
              !.rcx = IF r.op \in {"read", "write"} THEN r.size ELSE 0,
              !.moved = 0, !.res = NoRes]

\* the call r run alone on memory m until it returns
RECURSIVE RunAlone(_, _)
RunAlone(m, r) ==
    LET s == Step(m, r) IN
    IF s.cpu.pc \in {"done", "dead"} THEN s ELSE RunAlone(s.mem, s.cpu)

\* the two calls run one after the other, c1 first
OneAfterTheOther(c1, c2) ==
    LET s1 == RunAlone(InitMem, Entry(cpu[c1]))
        s2 == RunAlone(s1.mem, Entry(cpu[c2]))
    IN  /\ cpu[c1] = s1.cpu
        /\ cpu[c2] = s2.cpu
        /\ mem = s2.mem

\* C5: when two CPUs have each completed a call and the target ranges are
\* disjoint, results and memory are those of the two calls run one after the
\* other, in either order, whatever the interleaving was
C5_DisjointNoInterference ==
    (Done(0) /\ Done(1) /\ Range(cpu[0]) \cap Range(cpu[1]) = {}) =>
        (OneAfterTheOther(0, 1) /\ OneAfterTheOther(1, 0))

\* two writes on disjoint ranges that overlapped in time: CPU 1 started while
\* CPU 0 was part-way through its copy, and both completed
C5_Witness ==
    /\ Done(0) /\ Done(1)
    /\ cpu[0].op = "write" /\ cpu[1].op = "write"
    /\ cpu[0].size >= 2 /\ cpu[1].size >= 2
    /\ Range(cpu[0]) \cap Range(cpu[1]) = {}
    /\ cpu[0].res.tag = "Ok" /\ cpu[1].res.tag = "Ok"
    /\ old[1][cpu[0].ptr] = cpu[0].src[1]
    /\ old[1][(cpu[0].ptr + 1) % AddrSpace] = InitMem[(cpu[0].ptr + 1) % AddrSpace]

(***************************************************************************)
(* Claims about invalidate_stage2                                          *)
(***************************************************************************)
Stage2Pages == (pend - pstart) \div PAGE_SIZE
\* the error invalidate_stage2 returns when the given step fails
ErrOf(step) == IF step = "create_4k" THEN "MappingFailure" ELSE "ArchOperationFailure"

\* C6: when invalidate_stage2 returns Ok it has issued exactly one
\* page-state-change request, of kind shared, for the whole range
\* [0, 640 KiB) if the configuration requires one, and none otherwise
C6_OnePscForWholeRange ==
    (s2_pc = "done" /\ s2_res = "Ok") =>
        psc_log = IF config
                  THEN <<[start |-> pstart, end |-> pend, op |-> "PscShared"]>>
                  ELSE <<>>

\* C7: every failed step of invalidate_stage2 is returned as an error: the
\* monitor is never ended, and after a failure nothing more is tried
C7_FailuresAreReturned ==
    /\ ~panicked
    /\ s2_pc # "panic"
    /\ Len(failed) <= 1
    /\ failed # <<>> => (s2_pc = "done" /\ s2_res \notin {"None", "Ok"})

\* C8: the pages invalidated so far are the first pages of the range in
\* ascending order, each once; when the window or the invalidate of page i
\* fails the call has returned that error with exactly the pages below i
\* invalidated and no page-state-change request; Ok is returned, and a
\* request is issued, only after all 160 pages were invalidated
C8_AscendingWalk ==
    /\ Len(invalidated) <= Stage2Pages
    /\ \A i \in 1..Len(invalidated) : invalidated[i] = pstart + (i - 1) * PAGE_SIZE
    /\ (failed # <<>> /\ failed[1].step \in {"create_4k", "pvalidate"}) =>
          /\ s2_pc = "done"
          /\ s2_res = ErrOf(failed[1].step)
          /\ psc_log = <<>>
          /\ Len(failed) = 1
          /\ Len(invalidated) = (failed[1].paddr - pstart) \div PAGE_SIZE
    /\ s2_res = "Ok" => (Len(invalidated) = Stage2Pages /\ Stage2Pages = 160)
    /\ psc_log # <<>> => Len(invalidated) = Stage2Pages

\* the window of a page in the middle of the range could not be acquired
C8_Witness ==
    /\ s2_pc = "done"
    /\ failed # <<>> /\ failed[1].step = "create_4k" /\ failed[1].paddr = 80 * PAGE_SIZE
    /\ Len(invalidated) = 80
    /\ s2_res = "MappingFailure"

\* C9: at most one mapping window is held, and only between its acquisition
\* and the end of the same iteration: none is held when the next window is
\* acquired, when the page-state-change request is issued, or after the
\* call has returned, early or not
C9_OneWindow ==
    /\ Cardinality(windows) <= 1
    /\ s2_pc \in {"idle", "while", "create_4k", "psc", "done", "panic"} => windows = {}
    /\ s2_pc \in {"pvalidate", "advance"} => windows = {paddr}
    /\ psc_log # <<>> => windows = {}

\* the invalidate of a page failed and the call returned with no window held
C9_Witness ==
    /\ s2_pc = "done"
    /\ failed # <<>> /\ failed[1].step = "pvalidate" /\ failed[1].paddr >= PAGE_SIZE
    /\ s2_res = "ArchOperationFailure"
    /\ windows = {}

(***************************************************************************)
(* Claims about init_page_table                                            *)
(***************************************************************************)
\* the segments whose mapping is in the table
SegsMapped == IF Len(pgtable) < Len(kernel_elf) THEN Len(pgtable) ELSE Len(kernel_elf)

LaunchBlockPresent == launch_info.igvm_params_virt_addr # 0

\* the length of a segment in whole pages, counted page by page
AlignedLen(seg) ==
    PAGE_SIZE * (CHOOSE n \in 1..4 : /\ seg.vaddr_begin + n * PAGE_SIZE >= seg.vaddr_end
                                     /\ seg.vaddr_begin + (n - 1) * PAGE_SIZE < seg.vaddr_end)

RECURSIVE AlignedLenSum(_)
AlignedLenSum(n) == IF n = 0 THEN 0 ELSE AlignedLenSum(n - 1) + AlignedLen(kernel_elf[n])

\* where the first segment lies physically
FirstSegmentPhys ==
    launch_info.kernel_region_phys_start
        + (IF LaunchBlockPresent THEN IgvmParams.reserved_kernel_area_size ELSE 0)

HeapMapping ==
    [vstart |-> launch_info.heap_area_virt_start, vend |-> launch_info.heap_area_virt_end,
     paddr |-> launch_info.heap_area_phys_start, flags |-> "data"]

LaunchBlockMapping ==
    [vstart |-> launch_info.igvm_params_virt_addr,
     vend |-> launch_info.igvm_params_virt_addr + IgvmParams.size,
     paddr |-> launch_info.igvm_params_phys_addr, flags |-> "data"]

\* every segment, the launch-parameter block when present, and the heap
\* are mapped
AllMapped ==
    /\ Len(pgtable) = Len(kernel_elf) + (IF LaunchBlockPresent THEN 2 ELSE 1)
    /\ pgtable[Len(pgtable)] = HeapMapping
    /\ LaunchBlockPresent => pgtable[Len(pgtable) - 1] = LaunchBlockMapping

\* C12: the new table is installed, and published as the singleton, only
\* after every segment, the launch-parameter block (when present) and the
\* heap are mapped, and it is installed before it is published; when the
\* root allocation or a mapping fails, the monitor terminates with the
\* table neither installed nor published.
C12_InstallAfterMapping ==
    /\ loaded => (AllMapped /\ pt_pc \in {"publish", "done"})
    /\ init_pgtable # <<>> => (loaded /\ init_pgtable = pgtable /\ pt_pc = "done")
    /\ pt_pc = "done" => (loaded /\ init_pgtable = pgtable)
    /\ (pt_panic # "") <=> (pt_pc = "panic")
    /\ pt_pc = "panic" => (~loaded /\ init_pgtable = <<>>)

\* a table without launch-parameter block was installed and published
C12_Witness ==
    /\ pt_pc = "done"
    /\ ~LaunchBlockPresent
    /\ loaded
    /\ init_pgtable = pgtable
    /\ Len(init_pgtable) = Len(kernel_elf) + 1
    /\ Len(kernel_elf) >= 2

C14_Permission ==
    \A i \in 1..SegsMapped :
        LET f == kernel_elf[i].flags IN
        /\ "EXECUTE" \in f => pgtable[i].flags = "exec"
        /\ ("EXECUTE" \notin f /\ "WRITE" \in f) => pgtable[i].flags = "data"
        /\ ("EXECUTE" \notin f /\ "WRITE" \notin f) => pgtable[i].flags = "data_ro"

\* a segment with both the write and the execute attribute was mapped
C14_Witness ==
    \E i \in 1..SegsMapped :
        /\ {"WRITE", "EXECUTE"} \subseteq kernel_elf[i].flags
        /\ pgtable[i].flags = "exec"

\* C15: the launch-parameter block is mapped iff it is present (non-zero
\* virtual address): when present exactly once, after all segments and
\* before the heap, at its virtual address to its physical address, as
\* read/write data; when absent it is not mapped and no reserved size is
\* skipped; either way the heap is mapped as one read/write region from its
\* virtual start to its virtual end at its physical start.
C15_LaunchBlockAndHeap ==
    /\ pt_pc \in {"segments", "igvm"} => Len(pgtable) = seg_i - 1
    /\ pt_pc \in {"heap", "load", "publish", "done"} =>
          IF LaunchBlockPresent
          THEN /\ Len(pgtable) > Len(kernel_elf)
               /\ pgtable[Len(kernel_elf) + 1] = LaunchBlockMapping
               /\ Cardinality({ i \in 1..Len(pgtable) :
                                  pgtable[i].vstart = launch_info.igvm_params_virt_addr }) = 1
          ELSE /\ \A i \in 1..Len(pgtable) :
                     i > Len(kernel_elf) => pgtable[i] = HeapMapping
               /\ pgtable[1].paddr = launch_info.kernel_region_phys_start
    /\ pt_pc \in {"load", "publish", "done"} =>
          /\ Len(pgtable) = Len(kernel_elf) + (IF LaunchBlockPresent THEN 2 ELSE 1)
          /\ pgtable[Len(pgtable)] = HeapMapping
          /\ Cardinality({ i \in 1..Len(pgtable) :
                             pgtable[i].vstart = launch_info.heap_area_virt_start }) = 1

\* the launch-parameter block was mapped between the segments and the heap
C15_Witness ==
    /\ pt_pc = "done"
    /\ LaunchBlockPresent
    /\ Len(pgtable) = Len(kernel_elf) + 2
    /\ pgtable[Len(kernel_elf) + 1] = LaunchBlockMapping
    /\ pgtable[Len(kernel_elf) + 2] = HeapMapping

(***************************************************************************)
(* Claims about allocate_new_vmsa                                          *)
(***************************************************************************)
\* the role grants the current call attempted
Grants == { i \in 1..Len(events) : events[i].ev \in {"rmp_adjust", "rmp_adjust_failed"} }

\* C10: a call attempts the role grant at most once, after its allocation
\* succeeded and on the page that allocation returned; when the allocation
\* fails, no grant is attempted and the call returns the error
C10_AllocBeforeGrant ==
    /\ Cardinality(Grants) <= 1
    /\ \A i \in Grants :
          /\ i = 2
          /\ events[1] = [ev |-> "alloc", page |-> events[i].page]
          /\ events[i].page = vmsa_page
          /\ vmsa_page \in Pool
    /\ (events # <<>> /\ events[1].ev = "alloc_failed") =>
          /\ events = <<[ev |-> "alloc_failed", page |-> NoPage]>>
          /\ vm_pc = "done"
          /\ vm_res = "Err"

\* the allocation failed with the pool used up by earlier calls
C10_Witness ==
    /\ vm_pc = "done"
    /\ events = <<[ev |-> "alloc_failed", page |-> NoPage]>>
    /\ vm_res = "Err"
    /\ free = {}
    /\ rmp = Pool

\* C11: no page is left allocated-but-unregistered.  When a call has
\* returned, every page of the pool is either free or holds the VMPL-1
\* VMSA role, never both; a call whose role grant failed freed exactly the
\* page it allocated, so the free pool is what it was before the call; and
\* a call returns a page (Ok) only when the role was granted to that page.
C11_NoLeak ==
    /\ vm_pc \in {"idle", "done"} =>
          /\ free \cup rmp = Pool
          /\ free \cap rmp = {}
    /\ (vm_pc = "done" /\ vm_res = "Err") =>
          /\ free = free0
          /\ Cardinality(free) = Cardinality(free0)
          /\ Grants # {} =>
                events = <<[ev |-> "alloc", page |-> vmsa_page],
                           [ev |-> "rmp_adjust_failed", page |-> vmsa_page],
                           [ev |-> "free_page", page |-> vmsa_page]>>
    /\ (vm_pc = "done" /\ vm_res = "Ok") =>
          /\ vmsa_page \in rmp
          /\ vmsa_page \notin free
          /\ events = <<[ev |-> "alloc", page |-> vmsa_page],
                        [ev |-> "rmp_adjust", page |-> vmsa_page]>>

\* a role grant failed after earlier calls had succeeded, and the page
\* went back to the pool
C11_Witness ==
    /\ vm_pc = "done"
    /\ vm_res = "Err"
    /\ Len(events) = 3
    /\ events[3].ev = "free_page"
    /\ vmsa_page \in free
    /\ rmp # {}

(***************************************************************************)
(* Claims about RamFile                                                    *)
(***************************************************************************)
\* the offsets of the bytes stored in the pages of a file
Stored(f) ==
    UNION { { (p - 1) * PAGE_SIZE + i : i \in DOMAIN f.pages[p] } : p \in 1..Len(f.pages) }

\* the byte at an offset of the file's pages
FileByte(f, i) ==
    IF i \div PAGE_SIZE < Len(f.pages)
    THEN PageByte(f.pages[(i \div PAGE_SIZE) + 1], page_offset(i))
    ELSE 0

\* the bytes of both files agree at the offsets in keep
SameBytes(f, g, keep) ==
    \A i \in Stored(f) \cup Stored(g) : i \in keep => FileByte(f, i) = FileByte(g, i)

\* this step is a successful write(buf, offset)
WriteOk == fs_call'.op = "write" /\ fs_call'.res.tag = "Ok"

\* what a successful write does to the return value and to the bytes, and
\* what a read of the same range right after it returns
WriteReadRoundTrip ==
    /\ WriteOk =>
          LET buf == fs_call'.buf
              offset == fs_call'.offset
          IN /\ fs_call'.res.val = Len(buf)
             /\ \A k \in 1..Len(buf) : FileByte(file', offset + k - 1) = buf[k]
             /\ \A i \in Stored(file) \cup Stored(file') :
                    (i < offset \/ i >= offset + Len(buf)) =>
                        FileByte(file', i) = FileByte(file, i)
    /\ ( /\ fs_call.op = "write" /\ fs_call.res.tag = "Ok"
         /\ fs_call'.op = "read"
         /\ fs_call'.offset = fs_call.offset
         /\ Len(fs_call'.buf) = Len(fs_call.buf) ) =>
          /\ fs_call'.res = FsOk(Len(fs_call.buf))
          /\ fs_call'.out = fs_call.buf

\* C16 as stated: a successful write(buf, offset) returns buf.len(), sets
\* the size to max(previous size, offset + buf.len()), leaves the bytes
\* outside the range unchanged, and a following read of the range returns
\* the same bytes
C16_AsStated ==
    [][ /\ WriteReadRoundTrip
        /\ WriteOk => file'.size = Max(file.size, fs_call'.offset + Len(fs_call'.buf))
      ]_vars

\* C16: a successful write(buf, offset) returns buf.len(); it sets the size
\* to max(previous size, offset + buf.len()) when buf is not empty and
\* leaves the size unchanged when buf is empty; it leaves every byte
\* outside [offset, offset + buf.len()) unchanged; and a following read of
\* buf.len() bytes at the same offset returns buf.len() and the same bytes,
\* also across a page boundary
C16_WriteRead ==
    [][ /\ WriteReadRoundTrip
        /\ (WriteOk /\ fs_call'.buf # <<>>) =>
              file'.size = Max(file.size, fs_call'.offset + Len(fs_call'.buf))
        /\ (WriteOk /\ fs_call'.buf = <<>>) => file'.size = file.size
      ]_vars

\* a read returned the two bytes written across the first page boundary
C16_Witness ==
    /\ fs_call.op = "read"
    /\ fs_call.offset = PAGE_SIZE - 1
    /\ fs_call.res = FsOk(2)
    /\ fs_call.out = <<33, 34>>
    /\ Len(file.pages) = 2

\* C17: every byte below the file size that was not written since the file
\* was created, or since the last truncate to a size at or below its
\* offset, reads as zero
C17_GapsReadZero ==
    \A i \in Stored(file) : (i < file.size /\ i \notin written) => FileByte(file, i) = 0

\* a write past the end of the file left a gap behind the first byte
C17_Witness ==
    /\ fs_call.op = "write"
    /\ fs_call.offset = PAGE_SIZE - 1
    /\ fs_call.res.tag = "Ok"
    /\ 0 \in written
    /\ 1 \notin written
    /\ file.size >= PAGE_SIZE

\* C18: truncate(n) with n above the size returns the invalid-argument
\* error and leaves size, capacity, pages and contents unchanged; with n at
\* most the size it returns n, the size becomes n and the bytes in [0, n)
\* are unchanged
C18_Truncate ==
    [][ fs_call'.op = "truncate" =>
          LET n == fs_call'.offset IN
          IF n > file.size
          THEN /\ fs_call'.res = FsErr("inval")
               /\ file' = file
          ELSE /\ fs_call'.res = FsOk(n)
               /\ file'.size = n
               /\ SameBytes(file, file', 0..(n - 1))
      ]_vars

\* a truncate beyond the end of a file that holds data was refused
C18_Witness ==
    /\ fs_call.op = "truncate"
    /\ fs_call.res = FsErr("inval")
    /\ fs_call.offset > file.size
    /\ file.size > 0

\* C20: read(buf, offset) returns exactly min(buf.len(), size - min(offset,
\* size)) bytes, the bytes of the file from offset on, in the leading bytes
\* of buf; it leaves the rest of buf unchanged, returns 0 when offset is at
\* or beyond the size, and does not change the file
C20_ReadUpToEof ==
    [][ fs_call'.op = "read" =>
          LET buf == fs_call'.buf
              offset == fs_call'.offset
              n == Min(Len(buf), file.size - Min(offset, file.size))
          IN /\ fs_call'.res = FsOk(n)
             /\ Len(fs_call'.out) = Len(buf)
             /\ \A k \in 1..n : fs_call'.out[k] = FileByte(file, offset + k - 1)
             /\ \A k \in (n + 1)..Len(buf) : fs_call'.out[k] = buf[k]
             /\ offset >= file.size => fs_call'.res.val = 0
             /\ file' = file
      ]_vars

\* a read that reached the end of the file returned fewer bytes than asked
C20_Witness ==
    /\ fs_call.op = "read"
    /\ fs_call.res.tag = "Ok"
    /\ fs_call.res.val > 0
    /\ fs_call.res.val < Len(fs_call.buf)
    /\ fs_call.out[Len(fs_call.buf)] = 204

(***************************************************************************)
(* Claims about the exception table                                        *)
(***************************************************************************)
\* the primitive whose asm block a call is in
PrimOf(r) == IF r.pc = "movsb" THEN "do_movsb" ELSE r.op

\* the next instruction of the call faults on the target address
Faults(r) ==
    \/ r.pc = "movsb" /\ r.rcx # 0 /\ ~CanMove(r)
    \/ r.pc = "mov" /\ \E a \in Range(r) : ~Accessible(r, a)

\* the call was redirected to its recovery address and reports the fault
Recovered(r) ==
    /\ r.pc = "done"
    /\ r.res = Err("InvalidAddress")
    /\ r.rcx # 0

\* C19 as stated: in every primitive the instruction that can fault is at
\* an address registered as a fault address, its paired recovery address
\* lies after the step that clears the failure signal, and every such fault
\* is recovered (InvalidAddress, signal non-zero), none is fatal
C19_AsStated ==
    [][ \A c \in CPUS : (Faults(cpu[c]) /\ cpu'[c] # cpu[c]) =>
          LET p == PrimOf(cpu[c]) IN
          /\ \E e \in ExceptionTable :
                /\ e.start = FaultInsn(p)
                /\ e.end > ClearInsn(p)
          /\ Recovered(cpu'[c])
          /\ ~fatal'
      ]_vars

\* C19: in every primitive the instruction that can fault lies in an
\* address range [fault address, recovery address) registered in the
\* exception table (at its start in the fixed-width primitives, behind the
\* cld in do_movsb), and the recovery address lies after the instruction
\* that leaves the failure signal zero; so a dispatcher that redirects the
\* faults whose instruction address lies in a registered range recovers
\* every such fault (InvalidAddress, signal non-zero), none is fatal
C19_FaultsRecovered ==
    [][ \A c \in CPUS : (Faults(cpu[c]) /\ cpu'[c] # cpu[c]) =>
          LET p == PrimOf(cpu[c]) IN
          /\ \E e \in ExceptionTable :
                /\ e.start <= FaultInsn(p)
                /\ FaultInsn(p) < e.end
                /\ e.start = Label1(p)
                /\ e.end > ClearInsn(p)
          /\ Recovered(cpu'[c])
          /\ ~fatal'
      ]_vars

\* a read_u64 and a block copy both faulted and were recovered
C19_Witness ==
    /\ ~fatal
    /\ Recovered(cpu[0])
    /\ cpu[0].op = "read"
    /\ cpu[0].moved > 0
    /\ prev[0].op = "read_u64"
    /\ prev[0].res = Err("InvalidAddress")

(***************************************************************************)
(* Claims about the guest memory map                                       *)
(***************************************************************************)
\* C21: after init_memory_map succeeds, the monitor's memory is not in the
\* guest memory map: for every region the firmware reports that holds the
\* monitor's start address, also one that begins at that address,
\* valid_phys_address is false for the monitor's start address and every
\* higher address of the region, and stays true for the addresses of the
\* region below the monitor's start
C21_MonitorMemoryRemoved ==
    (mm_pc = "done" /\ mm_res = "Ok") =>
        \A i \in 1..Len(fw_regions) :
            LET r == fw_regions[i] IN
            (r.start <= kernel_start /\ kernel_start < r.end) =>
                /\ \A a \in kernel_start..(r.end - 1) : ~valid_phys_address(a)
                /\ \A a \in r.start..(kernel_start - 1) : valid_phys_address(a)

\* C22: the capacity of a file is the number of pages it holds times the
\* page size, and its size is at most its capacity, also after a write
\* that failed part-way on a page allocation; no read or write indexes a
\* page the file does not hold
C22_CapacityMatchesPages ==
    /\ file.capacity = Len(file.pages) * PAGE_SIZE
    /\ file.size <= file.capacity
    /\ fs_call.res # Panic

\* a write across the first page boundary failed on a page allocation and
\* left the file with a page and no data
C22_Witness ==
    /\ fs_call.op = "write"
    /\ fs_call.offset = PAGE_SIZE - 1
    /\ Len(fs_call.buf) = 2
    /\ fs_call.res = FsErr("AllocationFailure")
    /\ Len(file.pages) = 1
    /\ file.size = 0

====
